---------------------------- MODULE Spec2Model ----------------------------
(***************************************************************************)
(* A model of the resilience core of psrikar045/my-node-app:               *)
(*   - extractCompanyDetails and its in-memory extraction cache            *)
(*     (src/src/services/extractCompanyDetails.js),                        *)
(*   - LinkedInProxyManager (src/src/routes/extract.js),                   *)
(*   - getCluster and the puppeteer-cluster pool it launches               *)
(*     (src/src/services/puppeteerSetup.js),                               *)
(*   - the two LinkedIn retry loops (src/unnamed/part_001 and              *)
(*     src/src/services/linkedinScraper.js).                               *)
(* Each subsystem has its own specification over its own variables; the    *)
(* variables of the other subsystems stay at their initial values.         *)
(*                                                                         *)
(* JavaScript is single threaded: the code between two awaits runs         *)
(* atomically, so an action is one such stretch of a handler.              *)
(***************************************************************************)
EXTENDS Integers, Sequences, FiniteSets, TLC

(***************************************************************************)
(* Time.  The clock counts ticks of TickMs milliseconds; every duration of *)
(* the cache and of the proxy manager is a multiple of ten minutes.        *)
(***************************************************************************)
TickMs == 10 * 60 * 1000

\* An absent optional value is the empty sequence, a present one <<v>>.
None == <<>>
Some(v) == <<v>>

\* extractCompanyDetails and its cache
VARIABLES
    now,              \* Date.now(), in ticks
    extractionCache,  \* the Map, as the sequence of its entries in insertion order
    cPc,              \* per request slot: where its extractCompanyDetails call is
    cUrl,             \* per slot: `normalized`
    cLinkedin,        \* per slot: the normalized `linkedin` argument, "" when falsy
    ret,              \* what the step just taken handed to its caller, if anything
    lastStore         \* history: per cache key, the last entry stored under it

cacheVars == <<now, extractionCache, cPc, cUrl, cLinkedin, ret, lastStore>>

\* LinkedInProxyManager
VARIABLES
    proxies,            \* this.proxies: records of id, successCount, failureCount, avgResponseTime
    currentProxyIndex,  \* this.currentProxyIndex, counted from 0 as in the source
    failedProxies,      \* this.failedProxies
    lastProxyRotation,  \* this.lastProxyRotation
    timers,             \* the pending setTimeout callbacks of markProxyFailed
    pNow,               \* Date.now(), in ticks
    pRet,               \* what the method just called returned, if anything
    lastFailedAt        \* history: per id, when it last failed, None once a success cleared it

proxyVars == <<proxies, currentProxyIndex, failedProxies, lastProxyRotation,
               timers, pNow, pRet, lastFailedAt>>

\* getCluster and the pool
VARIABLES
    cluster,   \* the module's `cluster`: 0 while undefined, else the instance it names
    tPc,       \* per task: where its `(await getCluster()).execute(...)` is
    tInst,     \* per task: the instance its getCluster call returned, 0 before
    queue      \* per instance: the tasks waiting for a worker, oldest first

poolVars == <<cluster, tPc, tInst, queue>>

\* the retry loops of the LinkedIn scraper
VARIABLES
    rLoop,      \* the loop running: "retryLinkedInExtraction",
                \* "extractCompanyDataFromLinkedIn", or "none" before any call
    rUrlOk,     \* whether the url argument is a string
    retries,    \* the loop's bound: the `retries` argument, or maxRetries
    attempt,    \* the loop's counter
    lastError,  \* the loop's lastError / lastErr: None while undefined
    rPc,        \* "idle", "operation" (an attempt is awaited), "sleep", "done"
    history,    \* what happened in each attempt made so far, in order
    delays,     \* the delays waited so far, in ms, in order
    rRet        \* how the call settled: None until it has

retryVars == <<rLoop, rUrlOk, retries, attempt, lastError, rPc, history, delays, rRet>>

\* the LinkedIn step of extractCompanyDetails: withTimeout around the retry loop
VARIABLES
    lPc,     \* "idle", "waiting" (the race of line 115 is awaited), "done"
    lTimer,  \* whether the setTimeout of line 110 is pending
    lRes     \* how the race settled: None until it has

stepVars == <<lPc, lTimer, lRes>>

\* LinkedInSessionManager
VARIABLES
    cookieFile,      \* the content of linkedin-cookies.json, None while it does not exist
    sessionFile,     \* the content of linkedin-session.json, None while it does not exist
    currentSession,  \* this.currentSession, None for null
    cookieSave,      \* the saveCookies call in flight: the timestamp it took, else None
    sNow,            \* Date.now(), in session ticks
    sRet,            \* what the method just called returned, if anything
    savedWith,       \* the additionalData of the last saveSession call, by its type
    unlinked         \* the snapshots the call just made removed, as they were

sessionVars ==
    <<cookieFile, sessionFile, currentSession, cookieSave, sNow, sRet, savedWith, unlinked>>

\* The anti-block detector
VARIABLES
    abConfig,               \* the antiBlock settings in force
    consecutiveBlockCount,  \* block events since the last reset
    currentCooldownMs,      \* the cooldown in force
    lastBlockAt,            \* when the last block was seen, None before any
    abNow                   \* the detector's clock, in ticks of AbTickMs

antiBlockVars == <<abConfig, consecutiveBlockCount, currentCooldownMs, lastBlockAt, abNow>>

\* The configuration module
VARIABLES
    linkedInConfig,   \* the module's configuration object
    applied           \* the severities applied so far, oldest first

configVars == <<linkedInConfig, applied>>

\* LinkedInMonitor
VARIABLES
    requests,   \* this.requests
    errors,     \* this.errors
    logged      \* every record logRequest was given, oldest first

monitorVars == <<requests, errors, logged>>

\* A step of one subsystem leaves the others alone.
CacheFrame == UNCHANGED <<proxyVars, poolVars, retryVars, stepVars, sessionVars, antiBlockVars, configVars, monitorVars>>
ProxyFrame == UNCHANGED <<cacheVars, poolVars, retryVars, stepVars, sessionVars, antiBlockVars, configVars, monitorVars>>
PoolFrame == UNCHANGED <<cacheVars, proxyVars, retryVars, stepVars, sessionVars, antiBlockVars, configVars, monitorVars>>
RetryFrame == UNCHANGED <<cacheVars, proxyVars, poolVars, stepVars, sessionVars, antiBlockVars, configVars, monitorVars>>
StepFrame == UNCHANGED <<cacheVars, proxyVars, poolVars, sessionVars, antiBlockVars, configVars, monitorVars>>
SessionFrame == UNCHANGED <<cacheVars, proxyVars, poolVars, retryVars, stepVars, antiBlockVars, configVars, monitorVars>>
AntiBlockFrame ==
    UNCHANGED <<cacheVars, proxyVars, poolVars, retryVars, stepVars, sessionVars, configVars,
                monitorVars>>
ConfigFrame ==
    UNCHANGED <<cacheVars, proxyVars, poolVars, retryVars, stepVars, sessionVars, antiBlockVars,
                monitorVars>>
MonitorFrame ==
    UNCHANGED <<cacheVars, proxyVars, poolVars, retryVars, stepVars, sessionVars, antiBlockVars,
                configVars>>

-----------------------------------------------------------------------------
(***************************************************************************)
(* extractCompanyDetails and the extraction cache                          *)
(***************************************************************************)

\* Bounds of the cache model.
NumCalls == 2
MaxTime == 1
\* MAX_CACHE_ENTRIES is 100 in the source (extractCompanyDetails.js:10); the
\* model keeps the comparison and scales the number down.
MAX_CACHE_ENTRIES == 2

CACHE_DURATION == (10 * 60 * 1000) \div TickMs

Calls == 1..NumCalls

\* The url arguments tried, and what isValidUrl makes of them: trim, prefix
\* https:// when no scheme is given, then new URL(url).href or false.
RawUrls == {"a.com", " https://a.com/ ", "http://b.com", "c.com/x", "http://", ""}
Invalid == "false"
isValidUrl(urlString) ==
    CASE urlString = "a.com"            -> "https://a.com/"
      [] urlString = " https://a.com/ " -> "https://a.com/"
      [] urlString = "http://b.com"     -> "http://b.com/"
      [] urlString = "c.com/x"          -> "https://c.com/x"
      [] OTHER                          -> Invalid
NormUrls == {isValidUrl(u) : u \in RawUrls} \ {Invalid}

\* The linkedin arguments tried, and normalizeLinkedInUrl: trim, drop a
\* trailing /mycompany, /about or /overview, drop trailing slashes.
RawLinkedin == {"", "linkedin.com/company/acme/about/", "linkedin.com/company/acme/"}
normalizeLinkedInUrl(url) ==
    CASE url = "linkedin.com/company/acme/about/" -> "linkedin.com/company/acme"
      [] url = "linkedin.com/company/acme/"       -> "linkedin.com/company/acme"
      [] OTHER                                    -> url

CacheKey(normalized) == <<"extract:", normalized>>
CacheKeys == {CacheKey(n) : n \in NormUrls}

\* createError(type, message) and the success payload, in one record shape.
\* The payload's _performance field, a duration that nothing reads, is left out.
NoField == "undefined"
createError(type, message) ==
    [success |-> FALSE, errorType |-> type, errorMessage |-> message,
     site |-> NoField, linkedin |-> NoField, cached |-> FALSE]
Payload(siteData, linkedinData) ==
    [success |-> TRUE, errorType |-> NoField, errorMessage |-> NoField,
     site |-> siteData, linkedin |-> linkedinData, cached |-> FALSE]
\* An exception that is not one of createError's objects.
RawException(message) ==
    [success |-> FALSE, errorType |-> NoField, errorMessage |-> message,
     site |-> NoField, linkedin |-> NoField, cached |-> FALSE]

\* ---- the Map ----
Index(cache, key) ==
    IF \E i \in 1..Len(cache) : cache[i].key = key
    THEN CHOOSE i \in 1..Len(cache) : cache[i].key = key
    ELSE 0
MapHas(cache, key) == Index(cache, key) # 0
MapGet(cache, key) == IF MapHas(cache, key) THEN Some(cache[Index(cache, key)]) ELSE None
\* Map.set keeps the position of a key that is already there.
MapSetAppended(cache, key, data, timestamp) ==
    Append(cache, [key |-> key, data |-> data, timestamp |-> timestamp])
MapSet(cache, key, data, timestamp) ==
    LET e == [key |-> key, data |-> data, timestamp |-> timestamp] IN
    IF MapHas(cache, key)
    THEN [cache EXCEPT ![Index(cache, key)] = e]
    ELSE Append(cache, e)
MapKeys(cache) == {cache[i].key : i \in 1..Len(cache)}

\* cached && (Date.now() - cached.timestamp) < CACHE_DURATION
IsFreshLate(entry, t) == (t - entry.timestamp) <= CACHE_DURATION
IsFresh(entry, t) == (t - entry.timestamp) < CACHE_DURATION

\* The lookup of lines 80-85: the cached data marked _cached, or None on a miss.
LookupMiss(cache, key, t) == None
Lookup(cache, key, t) ==
    LET cached == MapGet(cache, key) IN
    IF cached # None /\ IsFresh(cached[1], t)
    THEN Some([cached[1].data EXCEPT !.cached = TRUE])
    ELSE None

\* Lines 129-133: set, then drop the first key of the Map when it has grown
\* past MAX_CACHE_ENTRIES.
CachePutNoEvict(cache, key, data, t) == MapSet(cache, key, data, t)
CachePutSkipped(cache, key, data, t) == cache
CachePut(cache, key, data, t) ==
    LET set == MapSet(cache, key, data, t) IN
    IF Len(set) > MAX_CACHE_ENTRIES THEN Tail(set) ELSE set


\* ---- extractCompanyDetails, one action per stretch between awaits ----

CacheInit ==
    /\ now = 0
    /\ extractionCache = <<>>
    /\ cPc = [c \in Calls |-> "idle"]
    /\ cUrl = [c \in Calls |-> ""]
    /\ cLinkedin = [c \in Calls |-> ""]
    /\ ret = None
    /\ lastStore = [k \in CacheKeys |-> None]

\* What a finished call hands to the route: a value returned or thrown.
Returned(c, value) == Some([threw |-> FALSE, value |-> value])
Thrown(c, value) == Some([threw |-> TRUE, value |-> value])

\* The call ends and its locals are gone.
Finish(c, outcome) ==
    /\ cPc' = [cPc EXCEPT ![c] = "idle"]
    /\ cUrl' = [cUrl EXCEPT ![c] = ""]
    /\ cLinkedin' = [cLinkedin EXCEPT ![c] = ""]
    /\ ret' = outcome

\* Lines 122-135: build the result, store it, evict, return.
StoreAndReturn(c, linkedinData) ==
    LET result == Payload(cUrl[c], linkedinData)
        key == CacheKey(cUrl[c])
    IN  /\ extractionCache' = CachePut(extractionCache, key, result, now)
        /\ lastStore' = [lastStore EXCEPT ![key] = Some([data |-> result, timestamp |-> now])]
        /\ Finish(c, Returned(c, result))

\* Lines 70-76: a request arrives; validate, then await isDomainResolvable.
Start(c, url, linkedin) ==
    /\ cPc[c] = "idle"
    /\ LET normalized == isValidUrl(url) IN
       IF normalized = Invalid
       THEN Finish(c, Thrown(c, createError("NetworkError", "Invalid URL")))
       ELSE /\ cPc' = [cPc EXCEPT ![c] = "resolving"]
            /\ cUrl' = [cUrl EXCEPT ![c] = normalized]
            /\ cLinkedin' = [cLinkedin EXCEPT ![c] =
                                IF linkedin = "" THEN "" ELSE normalizeLinkedInUrl(linkedin)]
            /\ ret' = None
    /\ UNCHANGED <<now, extractionCache, lastStore>>
    /\ CacheFrame

\* Lines 76-94: the DNS answer is in; look the key up; on a miss go on to
\* getCluster and cluster.execute.  No state of the cache is read or written
\* between these two awaits, so they are one wait here; getCluster itself is
\* modelled with the pool below.
Resolved(c, resolvable) ==
    /\ cPc[c] = "resolving"
    /\ IF ~resolvable
       THEN Finish(c, Thrown(c, createError("NetworkError", "Domain cannot be resolved")))
       ELSE LET hit == Lookup(extractionCache, CacheKey(cUrl[c]), now) IN
            IF hit # None
            THEN Finish(c, Returned(c, hit[1]))
            ELSE /\ cPc' = [cPc EXCEPT ![c] = "site"]
                 /\ ret' = None
                 /\ UNCHANGED <<cUrl, cLinkedin>>
    /\ UNCHANGED <<now, extractionCache, lastStore>>
    /\ CacheFrame

\* Lines 88-100: a throw leaves the function before line 129 is reached.
FailStored(c, error) ==
    /\ extractionCache' = CachePut(extractionCache, CacheKey(cUrl[c]), error, now)
    /\ UNCHANGED lastStore
    /\ Finish(c, Thrown(c, error))
Fail(c, error) ==
    /\ UNCHANGED <<extractionCache, lastStore>>
    /\ Finish(c, Thrown(c, error))

\* Lines 88-135: the site task ended.  A rejected launch is thrown as it is
\* (that await is outside the try); an error of the task is typed and thrown;
\* a result goes on to the LinkedIn step when a linkedin url was given, else
\* to the store.
SiteOutcomes == {"ok", "TimeoutError", "Error", "LaunchError"}
SiteDone(c, outcome) ==
    /\ cPc[c] = "site"
    /\ IF outcome = "LaunchError"
       THEN Fail(c, RawException("launch failed"))
       ELSE IF outcome = "TimeoutError"
       THEN Fail(c, createError("TimeoutError", "Website timed out"))
       ELSE IF outcome = "Error"
       THEN Fail(c, createError("NavigationError", "err.message"))
       ELSE IF cLinkedin[c] # ""
       THEN /\ cPc' = [cPc EXCEPT ![c] = "linkedin"]
            /\ ret' = None
            /\ UNCHANGED <<cUrl, cLinkedin, extractionCache, lastStore>>
       ELSE StoreAndReturn(c, "null")
    /\ UNCHANGED now
    /\ CacheFrame

\* Lines 115-135: withTimeout(retryLinkedInExtraction(linkedin), 120000) settled:
\* res.data on success, null after a failure or the timeout.
LinkedInDone(c, success) ==
    /\ cPc[c] = "linkedin"
    /\ StoreAndReturn(c, IF success THEN cLinkedin[c] ELSE "null")
    /\ UNCHANGED now
    /\ CacheFrame

Tick ==
    /\ now < MaxTime
    /\ now' = now + 1
    /\ ret' = None
    /\ UNCHANGED <<extractionCache, cPc, cUrl, cLinkedin, lastStore>>
    /\ CacheFrame

CacheNext ==
    \/ \E c \in Calls, url \in RawUrls, linkedin \in RawLinkedin : Start(c, url, linkedin)
    \/ \E c \in Calls, resolvable \in BOOLEAN : Resolved(c, resolvable)
    \/ \E c \in Calls, outcome \in SiteOutcomes : SiteDone(c, outcome)
    \/ \E c \in Calls, success \in BOOLEAN : LinkedInDone(c, success)
    \/ Tick

-----------------------------------------------------------------------------
(***************************************************************************)
(* LinkedInProxyManager (src/src/routes/extract.js, lines 26-271)          *)
(***************************************************************************)
\* Bounds of the proxy model.
MaxProxies == 2
MaxProxyTime == 3
MaxFailures == 2
MaxSuccesses == 1
MaxTimers == 2

rotationInterval == (10 * 60 * 1000) \div TickMs
quarantineWindow == (30 * 60 * 1000) \div TickMs

\* addProxy's id: proxy.id || `proxy_${this.proxies.length}`.
GivenIds == {"p1"}
GeneratedId(n) ==
    CASE n = 0 -> "proxy_0" [] n = 1 -> "proxy_1" [] n = 2 -> "proxy_2"
      [] n = 3 -> "proxy_3" [] OTHER -> "proxy_n"
ProxyIds == GivenIds \cup {GeneratedId(n) : n \in 0..(MaxProxies - 1)}
\* Response times tried; sums stay even, so that halving them is exact.
ResponseTimes == {200, 400}
Null == "null"

\* The fields host, port, credentials, addedAt and lastUsed are written but
\* read by nothing the manager decides on; they are left out.
NewProxy(id, n) ==
    [id |-> IF id = "" THEN GeneratedId(n) ELSE id,
     successCount |-> 0, failureCount |-> 0, avgResponseTime |-> 0]

\* this.proxies.find(p => p.id === proxyId): the position of the first match, 0 if none.
Find(ps, proxyId) ==
    IF \E i \in 1..Len(ps) : ps[i].id = proxyId
    THEN CHOOSE i \in 1..Len(ps) :
            ps[i].id = proxyId /\ \A j \in 1..(i - 1) : ps[j].id # proxyId
    ELSE 0

\* rotateProxy, lines 130-138: the cursor and lastProxyRotation after it.
RotatedUnstamped(ps, idx, last, t) ==
    IF Len(ps) <= 1
    THEN [index |-> idx, last |-> last]
    ELSE [index |-> (idx + 1) % Len(ps), last |-> last]
Rotated(ps, idx, last, t) ==
    IF Len(ps) <= 1
    THEN [index |-> idx, last |-> last]
    ELSE [index |-> (idx + 1) % Len(ps), last |-> t]

\* The loop of lines 110-124: from the cursor, the first proxy whose id is not
\* in failedProxies; the cursor stays on it.  `proxy` is its position, 0 for null.
RECURSIVE FindWorking(_, _, _, _)
FindWorkingUnchecked(ps, failed, idx, attempts) == [index |-> idx, proxy |-> idx + 1]
\* A round robin: the cursor moves on past the proxy it hands out.
FindWorkingAdvancing(ps, failed, idx, attempts) ==
    IF \A i \in 1..Len(ps) : ps[i].id \in failed
    THEN [index |-> idx, proxy |-> 0]
    ELSE LET k == CHOOSE k \in 0..(Len(ps) - 1) :
                      /\ ps[((idx + k) % Len(ps)) + 1].id \notin failed
                      /\ \A j \in 0..(k - 1) : ps[((idx + j) % Len(ps)) + 1].id \in failed
         IN  [index |-> (idx + k + 1) % Len(ps), proxy |-> ((idx + k) % Len(ps)) + 1]
FindWorking(ps, failed, idx, attempts) ==
    IF attempts >= Len(ps) THEN [index |-> idx, proxy |-> 0]
    ELSE IF ps[idx + 1].id \notin failed THEN [index |-> idx, proxy |-> idx + 1]
    ELSE FindWorking(ps, failed, (idx + 1) % Len(ps), attempts + 1)

\* The callback of line 153-156.
AfterTimerKept(failed, proxyId) == failed
AfterTimer(failed, proxyId) == failed \ {proxyId}

ProxyInit ==
    /\ proxies = <<>>
    /\ currentProxyIndex = 0
    /\ failedProxies = {}
    /\ lastProxyRotation = 0
    /\ timers = {}
    /\ pNow = 0
    /\ pRet = None
    /\ lastFailedAt = [id \in ProxyIds |-> None]

\* addProxy, lines 39-51.
AddProxy(id) ==
    /\ Len(proxies) < MaxProxies
    /\ proxies' = Append(proxies, NewProxy(id, Len(proxies)))
    /\ pRet' = None
    /\ UNCHANGED <<currentProxyIndex, failedProxies, lastProxyRotation, timers, pNow, lastFailedAt>>
    /\ ProxyFrame

\* getNextProxy, lines 97-125.
GetNextProxy ==
    /\ IF Len(proxies) = 0
       THEN /\ pRet' = Some(Null)
            /\ UNCHANGED <<proxies, currentProxyIndex, failedProxies, lastProxyRotation,
                           timers, pNow, lastFailedAt>>
       ELSE LET r == IF pNow - lastProxyRotation > rotationInterval
                     THEN Rotated(proxies, currentProxyIndex, lastProxyRotation, pNow)
                     ELSE [index |-> currentProxyIndex, last |-> lastProxyRotation]
                f == FindWorking(proxies, failedProxies, r.index, 0)
            IN  /\ currentProxyIndex' = f.index
                /\ lastProxyRotation' = r.last
                /\ pRet' = Some(IF f.proxy = 0 THEN Null ELSE proxies[f.proxy].id)
                /\ UNCHANGED <<proxies, failedProxies, timers, pNow, lastFailedAt>>
    /\ ProxyFrame

\* rotateProxy, lines 130-138, called on its own.
RotateProxy ==
    /\ LET r == Rotated(proxies, currentProxyIndex, lastProxyRotation, pNow) IN
       /\ currentProxyIndex' = r.index
       /\ lastProxyRotation' = r.last
       /\ pRet' = None
       /\ UNCHANGED <<proxies, failedProxies, timers, pNow, lastFailedAt>>
    /\ ProxyFrame

\* markProxyFailed, lines 143-157.
MarkProxyFailed(proxyId) ==
    /\ LET i == Find(proxies, proxyId) IN
       /\ i # 0 => proxies[i].failureCount < MaxFailures
       /\ Cardinality(timers) < MaxTimers
       /\ failedProxies' = failedProxies \cup {proxyId}
       /\ proxies' = IF i = 0 THEN proxies
                     ELSE [proxies EXCEPT ![i].failureCount = @ + 1]
       /\ timers' = timers \cup {[id |-> proxyId, at |-> pNow + quarantineWindow]}
       /\ lastFailedAt' = [lastFailedAt EXCEPT ![proxyId] = Some(pNow)]
       /\ pRet' = None
       /\ UNCHANGED <<currentProxyIndex, lastProxyRotation, pNow>>
    /\ ProxyFrame

\* markProxySuccess, lines 162-170.
MarkProxySuccessAll(proxyId, responseTime) ==
    /\ LET i == Find(proxies, proxyId) IN
       /\ i # 0 => proxies[i].successCount < MaxSuccesses
       /\ IF i = 0
          THEN UNCHANGED <<proxies, failedProxies, lastFailedAt>>
          ELSE /\ proxies' = [j \in 1..Len(proxies) |->
                                 [proxies[j] EXCEPT !.successCount = @ + 1]]
               /\ failedProxies' = failedProxies \ {proxyId}
               /\ lastFailedAt' = [lastFailedAt EXCEPT ![proxyId] = None]
       /\ pRet' = None
       /\ UNCHANGED <<currentProxyIndex, lastProxyRotation, timers, pNow>>
    /\ ProxyFrame
MarkProxySuccess(proxyId, responseTime) ==
    /\ LET i == Find(proxies, proxyId) IN
       /\ i # 0 => proxies[i].successCount < MaxSuccesses
       /\ IF i = 0
          THEN UNCHANGED <<proxies, failedProxies, lastFailedAt>>
          ELSE /\ proxies' = [proxies EXCEPT
                                 ![i].successCount = @ + 1,
                                 ![i].avgResponseTime = (@ + responseTime) \div 2]
               /\ failedProxies' = failedProxies \ {proxyId}
               /\ lastFailedAt' = [lastFailedAt EXCEPT ![proxyId] = None]
       /\ pRet' = None
       /\ UNCHANGED <<currentProxyIndex, lastProxyRotation, timers, pNow>>
    /\ ProxyFrame

\* A setTimeout callback of markProxyFailed runs, lines 153-156.
TimerFires(tm) ==
    /\ tm \in timers
    /\ pNow >= tm.at
    /\ failedProxies' = AfterTimer(failedProxies, tm.id)
    /\ timers' = timers \ {tm}
    /\ pRet' = None
    /\ UNCHANGED <<proxies, currentProxyIndex, lastProxyRotation, pNow, lastFailedAt>>
    /\ ProxyFrame

\* Time passes.  A callback that is due runs before the clock moves on.
ProxyTick ==
    /\ pNow < MaxProxyTime
    /\ \A tm \in timers : tm.at > pNow
    /\ pNow' = pNow + 1
    /\ pRet' = None
    /\ UNCHANGED <<proxies, currentProxyIndex, failedProxies, lastProxyRotation,
                   timers, lastFailedAt>>
    /\ ProxyFrame

ProxyNext ==
    \/ \E id \in GivenIds \cup {""} : AddProxy(id)
    \/ GetNextProxy
    \/ RotateProxy
    \/ \E id \in ProxyIds : MarkProxyFailed(id)
    \/ \E id \in ProxyIds, rt \in ResponseTimes : MarkProxySuccess(id, rt)
    \/ \E tm \in timers : TimerFires(tm)
    \/ ProxyTick

-----------------------------------------------------------------------------
(***************************************************************************)
(* getCluster (src/src/services/puppeteerSetup.js, lines 30-40) and the    *)
(* pool it launches.  A task is one `(await getCluster()).execute(...)`    *)
(* of an extractCompanyDetails call or of a LinkedIn attempt.  An instance *)
(* of the pool is named after the task whose call launched it.  The queue  *)
(* and the workers are puppeteer-cluster's: at most maxConcurrency tasks   *)
(* of an instance run at once, the others wait in the order they came.     *)
(***************************************************************************)

\* Bound of the pool model: the tasks submitted.
NumTasks == 5
Tasks == 1..NumTasks

\* parseInt(process.env.POOL_SIZE || '2', 10), with POOL_SIZE unset.
POOL_SIZE == 2
\* Without the default parseInt(undefined) is NaN, which no count is below.
maxConcurrencyNoDefault == POOL_SIZE * 0
maxConcurrency == POOL_SIZE

Active(i) == Cardinality({t \in Tasks : tPc[t] = "running" /\ tInst[t] = i})
TotalActive == Cardinality({t \in Tasks : tPc[t] = "running"})
\* The calls of Cluster.launch made so far.
Launches == {t \in Tasks : tPc[t] = "launching" \/ tInst[t] = t}

PoolInit ==
    /\ cluster = 0
    /\ tPc = [t \in Tasks |-> "start"]
    /\ tInst = [t \in Tasks |-> 0]
    /\ queue = [i \in Tasks |-> <<>>]

\* cluster.execute(data, fn): the task joins the queue of the instance.
Execute(t, i) ==
    /\ tPc' = [tPc EXCEPT ![t] = "queued"]
    /\ tInst' = [tInst EXCEPT ![t] = i]
    /\ queue' = [queue EXCEPT ![i] = Append(@, t)]

\* getCluster is called, lines 30-32 and 39: with `cluster` set it is returned
\* and the task is submitted; without, Cluster.launch is called and awaited.
CallGetCluster(t) ==
    /\ tPc[t] = "start"
    /\ IF cluster # 0
       THEN Execute(t, cluster)
       ELSE /\ tPc' = [tPc EXCEPT ![t] = "launching"]
            /\ UNCHANGED <<tInst, queue>>
    /\ UNCHANGED cluster
    /\ PoolFrame

\* Lines 32-39: the launch awaited by t's call settles; `cluster` is assigned
\* the new instance and returned, and the task is submitted to it.
LaunchDone(t) ==
    /\ tPc[t] = "launching"
    /\ cluster' = t
    /\ Execute(t, t)
    /\ PoolFrame

\* A worker of instance i is free: the oldest waiting task starts.
Dispatch(i) ==
    /\ queue[i] # <<>>
    /\ Active(i) < maxConcurrency
    /\ tPc' = [tPc EXCEPT ![Head(queue[i])] = "running"]
    /\ queue' = [queue EXCEPT ![i] = Tail(@)]
    /\ UNCHANGED <<cluster, tInst>>
    /\ PoolFrame

\* A running task ends, with a result or an error, and frees its worker.
Complete(t) ==
    /\ tPc[t] = "running"
    /\ tPc' = [tPc EXCEPT ![t] = "done"]
    /\ UNCHANGED <<cluster, tInst, queue>>
    /\ PoolFrame

PoolNext ==
    \/ \E t \in Tasks : CallGetCluster(t)
    \/ \E t \in Tasks : LaunchDone(t)
    \/ \E i \in Tasks : Dispatch(i)
    \/ \E t \in Tasks : Complete(t)

-----------------------------------------------------------------------------
(***************************************************************************)
(* The retry loops.  There are two: retryLinkedInExtraction                *)
(* (src/unnamed/part_001, lines 50-69), which wraps the single-visit       *)
(* extractCompanyDataFromLinkedIn of lines 13-40, and the loop inside      *)
(* extractCompanyDataFromLinkedIn of src/src/services/linkedinScraper.js,  *)
(* lines 10-34, which wraps getCluster and cluster.execute.                *)
(***************************************************************************)

\* Bound of the retry model: the largest `retries` argument tried.
MaxRetriesArg == 3
\* linkedinScraper.js, line 12.
maxRetries == 3

\* What can happen in one attempt: the data is scraped, the name does not
\* resolve, the navigation times out, the connection is reset, LinkedIn
\* serves a challenge page without the h1, an Error without a message; and
\* "validation", a url that is not a string, which normalizeLinkedInUrl
\* cannot trim.
Failures == {"network", "timeout", "reset", "blocked", "other"}
RawError(code, message) == [code |-> code, message |-> message]
Raised(cause) ==
    CASE cause = "network"    -> RawError("", "net::ERR_NAME_NOT_RESOLVED")
      [] cause = "timeout"    -> RawError("", "Navigation timeout of 60000 ms exceeded")
      [] cause = "reset"      -> RawError("ECONNRESET", "read ECONNRESET")
      [] cause = "blocked"    -> RawError("", "failed to find an element matching h1")
      [] cause = "other"      -> RawError("", "")
      [] cause = "validation" -> RawError("", "url.trim is not a function")

Scraped == [success |-> TRUE, data |-> "company"]

\* part_001, lines 13-40: what the single-visit operation throws.  The url
\* is normalized before the try; inside it every error becomes one of two.
VisitError(cause) ==
    IF cause = "validation" THEN Raised(cause)
    ELSE IF Raised(cause).code = "ECONNRESET"
    THEN createError("ECONNRESET", "Connection was reset by LinkedIn")
    ELSE createError("NetworkError", Raised(cause).message)

\* What an attempt of the loop throws when `cause` happens in it.
AttemptError(loop, cause) ==
    IF loop = "retryLinkedInExtraction" THEN VisitError(cause) ELSE Raised(cause)

\* The outcomes an attempt can have.
Outcomes(loop, urlOk) ==
    IF urlOk THEN {"ok"} \cup Failures ELSE {"validation"}

\* `while (attempt < retries)`, part_001 line 54 and linkedinScraper.js line 16.
LoopTestInclusive(a, max) == a <= max
LoopTest(a, max) == a < max

\* `catch (err)`: the handler takes every error, whatever its kind.
CatchesTransient(cause) == cause \in {"network", "timeout", "reset", "other"}
Catches(cause) == cause # "ok"

\* part_001, line 62, and linkedinScraper.js, line 29.
RetryDelayShort(loop, a) == (2 ^ a) * 100
RetryDelay(loop, a) ==
    IF loop = "retryLinkedInExtraction" THEN (2 ^ (a - 1)) * 1000 ELSE (2 ^ a) * 1000

\* The error the loop throws after its last attempt: part_001 line 68,
\* linkedinScraper.js line 33.
DefaultMessage == "LinkedIn scraping failed"
FinalError(loop, err) ==
    IF loop = "retryLinkedInExtraction"
    THEN IF err # None THEN err[1] ELSE createError("NetworkError", DefaultMessage)
    ELSE createError("NetworkError",
                     IF err # None /\ err[1].message # "" THEN err[1].message
                     ELSE DefaultMessage)

RetryInit ==
    /\ rLoop = "none"
    /\ rUrlOk = TRUE
    /\ retries = 0
    /\ attempt = 0
    /\ lastError = None
    /\ rPc = "idle"
    /\ history = <<>>
    /\ delays = <<>>
    /\ rRet = None

Settle(threw, value) ==
    /\ rPc' = "done"
    /\ rRet' = Some([threw |-> threw, value |-> value])

\* retryLinkedInExtraction(url, n) is called: lines 51-57 up to the await,
\* or, with nothing to try, line 68.
BeginRetryLinkedInExtraction(urlOk, n) ==
    /\ rPc \in {"idle", "done"}
    /\ rLoop' = "retryLinkedInExtraction"
    /\ rUrlOk' = urlOk
    /\ retries' = n
    /\ attempt' = 0
    /\ lastError' = None
    /\ history' = <<>>
    /\ delays' = <<>>
    /\ IF LoopTest(0, n)
       THEN rPc' = "operation" /\ rRet' = None
       ELSE Settle(TRUE, FinalError("retryLinkedInExtraction", None))

CallRetryLinkedInExtraction(urlOk, n) ==
    /\ BeginRetryLinkedInExtraction(urlOk, n)
    /\ RetryFrame

\* linkedinScraper.js's extractCompanyDataFromLinkedIn(url) is called: lines
\* 11-19 up to the await.  normalizeLinkedInUrl is outside the loop.
CallExtractCompanyDataFromLinkedIn(urlOk) ==
    /\ rPc \in {"idle", "done"}
    /\ rLoop' = "extractCompanyDataFromLinkedIn"
    /\ rUrlOk' = urlOk
    /\ retries' = maxRetries
    /\ lastError' = None
    /\ history' = <<>>
    /\ delays' = <<>>
    /\ IF urlOk /\ LoopTest(0, maxRetries)
       THEN attempt' = 1 /\ rPc' = "operation" /\ rRet' = None
       ELSE /\ attempt' = 0
            /\ IF urlOk
               THEN Settle(TRUE, FinalError("extractCompanyDataFromLinkedIn", None))
               ELSE Settle(TRUE, Raised("validation"))
    /\ RetryFrame

\* The awaited attempt settles.
OperationDone(cause) ==
    /\ rPc = "operation"
    /\ cause \in Outcomes(rLoop, rUrlOk)
    /\ history' = Append(history, cause)
    /\ IF cause = "ok"
       THEN /\ Settle(FALSE, Scraped)
            /\ UNCHANGED <<attempt, lastError, delays>>
       ELSE IF ~Catches(cause)
       THEN /\ Settle(TRUE, AttemptError(rLoop, cause))
            /\ UNCHANGED <<attempt, lastError, delays>>
       ELSE IF rLoop = "retryLinkedInExtraction"
       THEN \* part_001, lines 59-64
            /\ lastError' = Some(AttemptError(rLoop, cause))
            /\ attempt' = attempt + 1
            /\ IF attempt + 1 >= retries
               THEN /\ Settle(TRUE, FinalError(rLoop, Some(AttemptError(rLoop, cause))))
                    /\ UNCHANGED delays
               ELSE /\ delays' = Append(delays, RetryDelay(rLoop, attempt + 1))
                    /\ rPc' = "sleep"
                    /\ UNCHANGED rRet
       ELSE \* linkedinScraper.js, lines 28-30
            /\ lastError' = Some(AttemptError(rLoop, cause))
            /\ delays' = Append(delays, RetryDelay(rLoop, attempt))
            /\ rPc' = "sleep"
            /\ UNCHANGED <<attempt, rRet>>
    /\ UNCHANGED <<rLoop, rUrlOk, retries>>
    /\ RetryFrame

\* The delay has passed: the loop's test, then the next attempt or the throw.
SleepDone ==
    /\ rPc = "sleep"
    /\ IF LoopTest(attempt, retries)
       THEN /\ rPc' = "operation"
            /\ attempt' = IF rLoop = "retryLinkedInExtraction" THEN attempt ELSE attempt + 1
            /\ UNCHANGED rRet
       ELSE /\ Settle(TRUE, FinalError(rLoop, lastError))
            /\ UNCHANGED attempt
    /\ UNCHANGED <<rLoop, rUrlOk, retries, lastError, history, delays>>
    /\ RetryFrame

RetryNext ==
    \/ \E urlOk \in BOOLEAN, n \in 0..MaxRetriesArg : CallRetryLinkedInExtraction(urlOk, n)
    \/ \E urlOk \in BOOLEAN : CallExtractCompanyDataFromLinkedIn(urlOk)
    \/ \E cause \in {"ok", "validation"} \cup Failures : OperationDone(cause)
    \/ SleepDone

-----------------------------------------------------------------------------
(***************************************************************************)
(* The LinkedIn step of extractCompanyDetails, lines 102-120 of            *)
(* src/src/services/extractCompanyDetails.js:                              *)
(*   res = await withTimeout(retryLinkedInExtraction(linkedin), 120000)    *)
(* Promise.race settles with whichever of the loop and the timer settles   *)
(* first.  The loop's attempts wait for a pool worker for as long as it    *)
(* takes and then navigate for up to 60 s each, so the timer can find the  *)
(* loop at any point; the model lets it fire whenever the loop has not     *)
(* settled.                                                                *)
(***************************************************************************)

\* `retries = 3`, the default of src/unnamed/part_001 line 50.
DefaultRetries == 3

StepInit ==
    /\ lPc = "idle"
    /\ lTimer = FALSE
    /\ lRes = None

\* Lines 103-115: the loop is called, which runs up to its first await, and
\* the timer is set.
StepStart(urlOk) ==
    /\ lPc \in {"idle", "done"}
    /\ BeginRetryLinkedInExtraction(urlOk, DefaultRetries)
    /\ lPc' = "waiting"
    /\ lTimer' = TRUE
    /\ lRes' = None
    /\ StepFrame

\* The loop settled first: the race takes its outcome, `finally` clears the
\* timer, lines 112 and 115-119.
StepSettles ==
    /\ lPc = "waiting"
    /\ rPc = "done"
    /\ lPc' = "done"
    /\ lTimer' = FALSE
    /\ lRes' = rRet
    /\ UNCHANGED retryVars
    /\ StepFrame

\* The timer fired first, line 110: the race rejects with the TimeoutError,
\* which lines 117-119 log.  Nothing tells the loop, which goes on.
DeadlineFires ==
    /\ lPc = "waiting"
    /\ lTimer
    /\ rPc # "done"
    /\ lPc' = "done"
    /\ lTimer' = FALSE
    /\ lRes' = Some([threw |-> TRUE,
                     value |-> createError("TimeoutError", "LinkedIn extraction timeout")])
    /\ UNCHANGED retryVars
    /\ StepFrame

\* linkedinData after the step, lines 102 and 116.
LinkedinData == IF lRes = None \/ lRes[1].threw THEN "null" ELSE lRes[1].value.data

StepNext ==
    \/ \E urlOk \in BOOLEAN : StepStart(urlOk)
    \/ \E cause \in {"ok", "validation"} \cup Failures : OperationDone(cause)
    \/ SleepDone
    \/ StepSettles
    \/ DeadlineFires

-----------------------------------------------------------------------------
(***************************************************************************)
(* LinkedInSessionManager (src/unnamed/part_000).  Two snapshot files, the *)
(* cookies and the session, and the in-memory currentSession.  The clock   *)
(* of this part counts ticks of 24 minutes: sessionTimeout, two hours, is  *)
(* 5 ticks, and the 80% of it that needsRefresh compares with is 4.        *)
(***************************************************************************)

\* Bound of the session model: how far the clock runs.
MaxSessionTime == 7

SessionTickMs == 24 * 60 * 1000
sessionTimeoutMs == 2 * 60 * 60 * 1000
sessionTimeout == sessionTimeoutMs \div SessionTickMs

\* The additionalData given to saveSession, by its `type` field; "" is {}.
SessionTypes == {"", "realistic_browsing"}
\* generateSessionId's random part.
RandomParts == {"k3x", "q9z"}

\* Lines 89-94: the object saveSession writes.
SessionData(t, random, type) ==
    [timestamp |-> t, lastActivity |-> t,
     sessionId |-> <<"session", t, random>>, type |-> type]
\* Lines 37-42, without the cookies themselves, the userAgent and the url.
CookieData(t) == [timestamp |-> t]

\* sessionAge > this.sessionTimeout, lines 65-66 and 118-119.
IsExpiredEarly(data, t) == t - data.timestamp >= sessionTimeout
IsExpired(data, t) == t - data.timestamp > sessionTimeout

\* needsRefresh, lines 258-263.
NeedsRefreshInclusive(session, t) ==
    IF session = None THEN TRUE
    ELSE (t - session[1].timestamp) * 10 >= sessionTimeout * 8
NeedsRefresh(session, t) ==
    IF session = None THEN TRUE
    ELSE (t - session[1].timestamp) * 10 > sessionTimeout * 8

NothingUnlinked == [cookies |-> None, session |-> None]

SessionInit ==
    /\ cookieFile = None
    /\ sessionFile = None
    /\ currentSession = None
    /\ cookieSave = None
    /\ sNow = 0
    /\ sRet = None
    /\ savedWith = None
    /\ unlinked = NothingUnlinked

SReturn(op, value) == Some([op |-> op, value |-> value])

\* clearSession, lines 139-154: what it leaves of the state.  It takes no
\* argument: whichever snapshot `own` the caller found expired, both go.
ClearedOwn(own) ==
    /\ cookieFile' = IF own = "cookies" THEN None ELSE cookieFile
    /\ sessionFile' = IF own = "session" THEN None ELSE sessionFile
    /\ currentSession' = IF own = "session" THEN None ELSE currentSession
    /\ unlinked' = [cookies |-> IF own = "cookies" THEN cookieFile ELSE None,
                    session |-> IF own = "session" THEN sessionFile ELSE None]
Cleared(own) ==
    /\ cookieFile' = None
    /\ sessionFile' = None
    /\ currentSession' = None
    /\ unlinked' = [cookies |-> cookieFile, session |-> sessionFile]

\* saveCookies up to its second await, lines 36-40: the timestamp is taken.
SaveCookiesBegin ==
    /\ cookieSave = None
    /\ cookieSave' = Some(sNow)
    /\ unlinked' = NothingUnlinked
    /\ sRet' = None
    /\ UNCHANGED <<cookieFile, sessionFile, currentSession, sNow>>
    /\ UNCHANGED savedWith
    /\ SessionFrame

\* saveCookies after it, lines 40-49: the file is written, unless the page
\* threw, which is logged.
SaveCookiesEnd(pageOk) ==
    /\ cookieSave # None
    /\ cookieFile' = IF pageOk THEN Some(CookieData(cookieSave[1])) ELSE cookieFile
    /\ cookieSave' = None
    /\ unlinked' = NothingUnlinked
    /\ sRet' = None
    /\ UNCHANGED <<sessionFile, currentSession, sNow>>
    /\ UNCHANGED savedWith
    /\ SessionFrame

\* loadCookies, lines 55-82.  With a fresh snapshot the cookies are set on the
\* page, which may throw: that is logged and false is returned.
LoadCookies(pageOk) ==
    /\ IF cookieFile = None
       THEN /\ sRet' = SReturn("loadCookies", [value |-> FALSE, error |-> FALSE])
            /\ unlinked' = NothingUnlinked
            /\ UNCHANGED <<cookieFile, sessionFile, currentSession>>
       ELSE IF IsExpired(cookieFile[1], sNow)
       THEN /\ Cleared("cookies")
            /\ sRet' = SReturn("loadCookies", [value |-> FALSE, error |-> FALSE])
       ELSE /\ sRet' = SReturn("loadCookies", [value |-> pageOk, error |-> ~pageOk])
            /\ unlinked' = NothingUnlinked
            /\ UNCHANGED <<cookieFile, sessionFile, currentSession>>
    /\ UNCHANGED <<cookieSave, sNow>>
    /\ UNCHANGED savedWith
    /\ SessionFrame

\* saveSession, lines 87-104.
SaveSessionMerged(random, type) ==
    LET kept == IF type = "" /\ sessionFile # None THEN sessionFile[1].type ELSE type IN
    /\ sessionFile' = Some(SessionData(sNow, random, kept))
    /\ currentSession' = Some(SessionData(sNow, random, kept))
    /\ unlinked' = NothingUnlinked
    /\ sRet' = None
    /\ savedWith' = Some(type)
    /\ UNCHANGED <<cookieFile, cookieSave, sNow>>
    /\ SessionFrame
SaveSession(random, type) ==
    /\ sessionFile' = Some(SessionData(sNow, random, type))
    /\ currentSession' = Some(SessionData(sNow, random, type))
    /\ unlinked' = NothingUnlinked
    /\ sRet' = None
    /\ savedWith' = Some(type)
    /\ UNCHANGED <<cookieFile, cookieSave, sNow>>
    /\ SessionFrame

\* loadSession, lines 109-134.
LoadSession ==
    /\ IF sessionFile = None
       THEN /\ sRet' = SReturn("loadSession", None)
            /\ unlinked' = NothingUnlinked
            /\ UNCHANGED <<cookieFile, sessionFile, currentSession>>
       ELSE IF IsExpired(sessionFile[1], sNow)
       THEN /\ Cleared("session")
            /\ sRet' = SReturn("loadSession", None)
       ELSE /\ currentSession' = sessionFile
            /\ sRet' = SReturn("loadSession", sessionFile)
            /\ unlinked' = NothingUnlinked
            /\ UNCHANGED <<cookieFile, sessionFile>>
    /\ UNCHANGED <<cookieSave, sNow>>
    /\ UNCHANGED savedWith
    /\ SessionFrame

\* clearSession, lines 139-154, called on its own.
ClearSession ==
    /\ Cleared("both")
    /\ sRet' = None
    /\ UNCHANGED <<cookieSave, sNow>>
    /\ UNCHANGED savedWith
    /\ SessionFrame

\* getSessionStats, lines 244-253, which only reads; sessionId and the
\* constant sessionTimeout are left out.
getSessionStats ==
    [hasActiveSession |-> currentSession # None,
     sessionAge |-> IF currentSession # None THEN sNow - currentSession[1].timestamp ELSE 0,
     cookieFileExists |-> cookieFile # None,
     sessionFileExists |-> sessionFile # None]

\* needsRefresh, lines 258-263, is called.
CallNeedsRefresh ==
    /\ unlinked' = NothingUnlinked
    /\ sRet' = SReturn("needsRefresh", NeedsRefresh(currentSession, sNow))
    /\ UNCHANGED <<cookieFile, sessionFile, currentSession, cookieSave, sNow>>
    /\ UNCHANGED savedWith
    /\ SessionFrame

SessionTick ==
    /\ sNow < MaxSessionTime
    /\ sNow' = sNow + 1
    /\ unlinked' = NothingUnlinked
    /\ sRet' = None
    /\ UNCHANGED <<cookieFile, sessionFile, currentSession, cookieSave>>
    /\ UNCHANGED savedWith
    /\ SessionFrame

SessionNext ==
    \/ SaveCookiesBegin
    \/ \E pageOk \in BOOLEAN : SaveCookiesEnd(pageOk)
    \/ \E pageOk \in BOOLEAN : LoadCookies(pageOk)
    \/ \E random \in RandomParts, type \in SessionTypes : SaveSession(random, type)
    \/ LoadSession
    \/ ClearSession
    \/ CallNeedsRefresh
    \/ SessionTick

-----------------------------------------------------------------------------
(***************************************************************************)
(* The anti-block detector.  Its settings are linkedInConfig.antiBlock     *)
(* (src/unnamed/part_002, lines 39-52); the file that keeps its state,     *)
(* linkedin-anti-block.js, is not among the sources, and the transition    *)
(* is the one section 4.4 of the specification gives: on a block the       *)
(* counter goes up by one, lastBlockAt is now, and the cooldown is         *)
(* min(initialCooldown * backoffMultiplier^(count - 1), maxCooldown).      *)
(***************************************************************************)

\* Bounds of the detector model.
MaxBlocks == 6
MaxAbTime == 3
AbTickMs == 5000

\* The defaults of part_002, lines 41-47.
cooldownPeriod == 5 * 60 * 1000
maxCooldownPeriod == 60 * 60 * 1000
backoffMultiplier == 2
DefaultAntiBlock ==
    [cooldownPeriod |-> cooldownPeriod, maxCooldownPeriod |-> maxCooldownPeriod,
     backoffMultiplier |-> backoffMultiplier]

\* Settings the environment variables LINKEDIN_COOLDOWN_PERIOD,
\* LINKEDIN_MAX_COOLDOWN_PERIOD and LINKEDIN_BACKOFF_MULTIPLIER may give.
AntiBlockConfigs ==
    {DefaultAntiBlock} \cup
    [cooldownPeriod : {5000, 15 * 60 * 1000},
     maxCooldownPeriod : {15 * 60 * 1000, maxCooldownPeriod},
     backoffMultiplier : {1, 2, 3}]

Min(a, b) == IF a <= b THEN a ELSE b

\* The cooldown after the k-th consecutive block, k >= 1.
CooldownUnclamped(config, k) == config.cooldownPeriod * config.backoffMultiplier ^ (k - 1)
CooldownAfter(config, k) ==
    Min(config.cooldownPeriod * config.backoffMultiplier ^ (k - 1), config.maxCooldownPeriod)

AntiBlockInit ==
    /\ abConfig = DefaultAntiBlock
    /\ consecutiveBlockCount = 0
    /\ currentCooldownMs = DefaultAntiBlock.cooldownPeriod
    /\ lastBlockAt = None
    /\ abNow = 0

\* The settings are read from the environment when the process starts.
LoadAntiBlockConfig(config) ==
    /\ consecutiveBlockCount = 0
    /\ lastBlockAt = None
    /\ abNow = 0
    /\ abConfig' = config
    /\ currentCooldownMs' = config.cooldownPeriod
    /\ UNCHANGED <<consecutiveBlockCount, lastBlockAt, abNow>>
    /\ AntiBlockFrame

\* A response is classified as blocked.
RecordBlock ==
    /\ consecutiveBlockCount < MaxBlocks
    /\ consecutiveBlockCount' = consecutiveBlockCount + 1
    /\ lastBlockAt' = Some(abNow)
    /\ currentCooldownMs' = CooldownAfter(abConfig, consecutiveBlockCount + 1)
    /\ UNCHANGED <<abConfig, abNow>>
    /\ AntiBlockFrame

\* The explicit reset: the counter to 0, the cooldown to its initial value.
ResetAntiBlock ==
    /\ consecutiveBlockCount' = 0
    /\ currentCooldownMs' = abConfig.cooldownPeriod
    /\ UNCHANGED <<abConfig, lastBlockAt, abNow>>
    /\ AntiBlockFrame

\* now - lastBlockAt < currentCooldownMs
IsInCooldown ==
    lastBlockAt # None /\ (abNow - lastBlockAt[1]) * AbTickMs < currentCooldownMs

AntiBlockTick ==
    /\ abNow < MaxAbTime
    /\ abNow' = abNow + 1
    /\ UNCHANGED <<abConfig, consecutiveBlockCount, currentCooldownMs, lastBlockAt>>
    /\ AntiBlockFrame

AntiBlockNext ==
    \/ \E config \in AntiBlockConfigs : LoadAntiBlockConfig(config)
    \/ RecordBlock
    \/ ResetAntiBlock
    \/ AntiBlockTick

-----------------------------------------------------------------------------
(***************************************************************************)
(* The configuration module (src/unnamed/part_002): linkedInConfig and     *)
(* applyConfigurationBySeverity.  Of each section the fields that a        *)
(* severity writes are kept, and one or two of the others.                 *)
(***************************************************************************)

\* Bound of the configuration model: the calls made.
MaxApplies == 4

\* Lines 8-77, with no environment variable set.
DefaultConfig ==
    [rateLimiting |-> [baseDelay |-> 8000, maxDelay |-> 30000, maxRequestsPerHour |-> 10,
                       burstDelay |-> 60000, jitterRange |-> 2000],
     browser      |-> [sessionDuration |-> 15 * 60 * 1000],
     antiBlock    |-> DefaultAntiBlock,
     retry        |-> [maxAttempts |-> 3, baseRetryDelay |-> 1000, retryMultiplier |-> 2],
     timeouts     |-> [navigationTimeout |-> 30000, totalTimeout |-> 240000]]

\* { ...object, field: value, ... }: the object with these fields written.
Spread(object, fields) ==
    [k \in DOMAIN object \cup DOMAIN fields |->
        IF k \in DOMAIN fields THEN fields[k] ELSE object[k]]

\* updateConfig, lines 89-92: Object.assign(linkedInConfig, newConfig).
updateConfig(config, newConfig) == Spread(config, newConfig)

\* getAggressiveConfig, lines 141-156.
getAggressiveConfigBare(config) ==
    [rateLimiting |-> [baseDelay |-> 15000, maxRequestsPerHour |-> 5, burstDelay |-> 120000],
     antiBlock    |-> [cooldownPeriod |-> 15 * 60 * 1000,
                       maxCooldownPeriod |-> 2 * 60 * 60 * 1000]]
getAggressiveConfig(config) ==
    Spread(config,
        [rateLimiting |-> Spread(config.rateLimiting,
                                 [baseDelay |-> 15000, maxRequestsPerHour |-> 5,
                                  burstDelay |-> 120000]),
         antiBlock    |-> Spread(config.antiBlock,
                                 [cooldownPeriod |-> 15 * 60 * 1000,
                                  maxCooldownPeriod |-> 2 * 60 * 60 * 1000])])

\* The severities tried; "none" is a value the switch does not know.
Severities == {"high", "medium", "low", "none"}

\* applyConfigurationBySeverity, lines 161-195: the configuration it leaves.
WithSeverity(config, severity) ==
    CASE severity = "high" -> updateConfig(config, getAggressiveConfig(config))
      [] severity = "medium" ->
            updateConfig(config,
                Spread(config, [rateLimiting |->
                    Spread(config.rateLimiting,
                           [baseDelay |-> 12000, maxRequestsPerHour |-> 8])]))
      [] severity = "low" ->
            updateConfig(config,
                Spread(config, [rateLimiting |->
                    Spread(config.rateLimiting,
                           [baseDelay |-> 10000, maxRequestsPerHour |-> 12])]))
      [] OTHER -> config

ConfigInit ==
    /\ linkedInConfig = DefaultConfig
    /\ applied = <<>>

applyConfigurationBySeverity(severity) ==
    /\ Len(applied) < MaxApplies
    /\ linkedInConfig' = WithSeverity(linkedInConfig, severity)
    /\ applied' = Append(applied, severity)
    /\ ConfigFrame

ConfigNext == \E severity \in Severities : applyConfigurationBySeverity(severity)

-----------------------------------------------------------------------------
(***************************************************************************)
(* LinkedInMonitor.logRequest (src/src/routes/extract.js, lines 310-343)   *)
(***************************************************************************)

\* Bound of the monitor model: the calls of logRequest made.
MaxLogged == 6
\* The source keeps 100 requests and 50 errors (lines 336-342); the model
\* keeps the comparisons and scales the numbers down.
KeepRequests == 3
KeepErrors == 2

\* array.slice(-n): the last n elements, or all when there are fewer.
SliceFirst(array, n) ==
    IF Len(array) <= n THEN array ELSE SubSeq(array, 1, n)
SliceLast(array, n) ==
    IF Len(array) <= n THEN array ELSE SubSeq(array, Len(array) - n + 1, Len(array))

\* Lines 318-325: the record, by its place in the order of arrival and its
\* success flag; url, duration, error and memoryUsage are left out.
Request(n, success) == [n |-> n, success |-> success]

MonitorInit ==
    /\ requests = <<>>
    /\ errors = <<>>
    /\ logged = <<>>

\* logRequest, lines 317-343.
logRequest(success) ==
    /\ Len(logged) < MaxLogged
    /\ LET request == Request(Len(logged) + 1, success)
           pushed == Append(requests, request)
           failed == IF ~success THEN Append(errors, request) ELSE errors
       IN  /\ requests' = IF Len(pushed) > KeepRequests
                          THEN SliceLast(pushed, KeepRequests) ELSE pushed
           /\ errors' = IF Len(failed) > KeepErrors
                        THEN SliceLast(failed, KeepErrors) ELSE failed
           /\ logged' = Append(logged, request)
    /\ MonitorFrame

MonitorNext == \E success \in BOOLEAN : logRequest(success)

-----------------------------------------------------------------------------
(***************************************************************************)
(* Specifications: one per subsystem, the others held still.               *)
(***************************************************************************)
vars ==
    <<cacheVars, proxyVars, poolVars, retryVars, stepVars, sessionVars, antiBlockVars,
      configVars, monitorVars>>

Init ==
    /\ CacheInit /\ ProxyInit /\ PoolInit /\ RetryInit /\ StepInit /\ SessionInit
    /\ AntiBlockInit /\ ConfigInit /\ MonitorInit
Spec == Init /\ [][CacheNext]_vars
ProxySpec == Init /\ [][ProxyNext]_vars
\* The event loop runs every callback that is ready, and every task ends.
PoolSpec == Init /\ [][PoolNext]_vars /\ WF_vars(PoolNext)
RetrySpec == Init /\ [][RetryNext]_vars
StepSpec == Init /\ [][StepNext]_vars
SessionSpec == Init /\ [][SessionNext]_vars
AntiBlockSpec == Init /\ [][AntiBlockNext]_vars
ConfigSpec == Init /\ [][ConfigNext]_vars
MonitorSpec == Init /\ [][MonitorNext]_vars

\* One caller of extractCompanyDetails beside a proxy manager that is being
\* configured and asked for proxies.
EndToEndNext ==
    \/ \E url \in RawUrls, linkedin \in RawLinkedin : Start(1, url, linkedin)
    \/ \E resolvable \in BOOLEAN : Resolved(1, resolvable)
    \/ \E outcome \in SiteOutcomes : SiteDone(1, outcome)
    \/ \E success \in BOOLEAN : LinkedInDone(1, success)
    \/ Tick
    \/ \E id \in GivenIds \cup {""} : AddProxy(id)
    \/ GetNextProxy
EndToEndSpec == Init /\ [][EndToEndNext]_vars

-----------------------------------------------------------------------------
(***************************************************************************)
(* Claims about the extraction cache                                       *)
(***************************************************************************)

\* What a lookup of `key` answers in the current state.
LookupNow(key) == Lookup(extractionCache, key, now)
AsCached(data) == Some([data EXCEPT !.cached = TRUE])

\* C1, as stated: for every key, from the moment a result is stored for it, a
\* lookup answers that payload while less than CACHE_DURATION has passed since
\* the store, and answers absent from then on.
C1_FreshUntilExpiry ==
    \A k \in CacheKeys :
        lastStore[k] # None =>
            LET e == lastStore[k][1] IN
            IF now - e.timestamp < CACHE_DURATION
            THEN LookupNow(k) = AsCached(e.data)
            ELSE LookupNow(k) = None

\* C1, amended: the same, for an entry that the capacity rule has not removed.
\* The entry the Map holds for a key is the last one stored for it; a lookup
\* answers its payload exactly while it is held and less than CACHE_DURATION
\* old, and absent otherwise; a call that returns a cached payload returns the
\* last payload stored for its key, less than CACHE_DURATION after the store.
C1_FreshUntilExpiryOrEvicted ==
    /\ \A k \in CacheKeys :
          IF lastStore[k] = None
          THEN ~MapHas(extractionCache, k) /\ LookupNow(k) = None
          ELSE LET e == lastStore[k][1] IN
               /\ MapHas(extractionCache, k) =>
                     MapGet(extractionCache, k) =
                         Some([key |-> k, data |-> e.data, timestamp |-> e.timestamp])
               /\ LookupNow(k) =
                     IF MapHas(extractionCache, k) /\ now - e.timestamp < CACHE_DURATION
                     THEN AsCached(e.data)
                     ELSE None
    /\ (ret # None /\ ret[1].value.cached) =>
          LET k == CacheKey(ret[1].value.site) IN
          /\ lastStore[k] # None
          /\ ret = Some([threw |-> FALSE, value |-> AsCached(lastStore[k][1].data)[1]])
          /\ now - lastStore[k][1].timestamp < CACHE_DURATION

\* C1, witness: a call has just been answered from the cache while the Map
\* also holds an entry that has expired.
C1_Witness ==
    /\ ret # None
    /\ ret[1].value.cached
    /\ \E i \in 1..Len(extractionCache) :
          now - extractionCache[i].timestamp >= CACHE_DURATION

\* C2: the Map never holds more than MAX_CACHE_ENTRIES entries (one per key);
\* a step that adds a new key to a full Map removes exactly one key, and a
\* step that adds no new key removes none.
C2_SizeOk ==
    /\ Len(extractionCache) <= MAX_CACHE_ENTRIES
    /\ Cardinality(MapKeys(extractionCache)) = Len(extractionCache)
C2_EvictsOne ==
    LET old == MapKeys(extractionCache)
        new == MapKeys(extractionCache')
    IN  IF new \ old # {}
        THEN /\ Cardinality(new \ old) = 1
             /\ IF Len(extractionCache) = MAX_CACHE_ENTRIES
                THEN Cardinality(old \ new) = 1
                ELSE old \subseteq new
        ELSE old = new
C2_CacheBounded == []C2_SizeOk /\ [][C2_EvictsOne]_vars

\* C2, witness: the Map is full and a key stored earlier has been evicted.
C2_Witness ==
    /\ Len(extractionCache) = MAX_CACHE_ENTRIES
    /\ \E k \in CacheKeys : lastStore[k] # None /\ ~MapHas(extractionCache, k)

-----------------------------------------------------------------------------
(***************************************************************************)
(* Claims about LinkedInProxyManager                                       *)
(***************************************************************************)

ConfiguredIds == {proxies[i].id : i \in 1..Len(proxies)}

\* C3: what getNextProxy returns is a configured proxy whose id is not in
\* failedProxies, or null; it returns null exactly when every configured
\* proxy is in failedProxies (or none is configured).
C3_NeverQuarantined ==
    pRet # None =>
        /\ pRet[1] # Null => pRet[1] \in ConfiguredIds \ failedProxies
        /\ pRet[1] = Null <=> ConfiguredIds \subseteq failedProxies

\* C3, witness: two proxies are configured, both are quarantined, and
\* getNextProxy has returned null.
C3_Witness ==
    /\ pRet = Some(Null)
    /\ Len(proxies) >= 2
    /\ ConfiguredIds \subseteq failedProxies

\* C4, as stated: getNextProxy does not return a proxy earlier than
\* quarantineWindow after its most recent failure, unless a success cleared it.
C4_QuarantineFromLastFailure ==
    (pRet # None /\ pRet[1] # Null) =>
        \/ lastFailedAt[pRet[1]] = None
        \/ pNow >= lastFailedAt[pRet[1]][1] + quarantineWindow

\* C5: a proxy is in failedProxies no longer than quarantineWindow after its
\* last failure, and while it is there a timer that will release it is
\* pending: no reset or success call is needed.
C5_ReleasedAfterWindow ==
    \A id \in failedProxies :
        /\ lastFailedAt[id] # None
        /\ pNow <= lastFailedAt[id][1] + quarantineWindow
        /\ \E tm \in timers :
              tm.id = id /\ tm.at <= lastFailedAt[id][1] + quarantineWindow

\* C5, witness: getNextProxy has returned a proxy that failed quarantineWindow
\* ago and has had no success since.
C5_Witness ==
    /\ pRet # None
    /\ pRet[1] # Null
    /\ lastFailedAt[pRet[1]] # None
    /\ pNow >= lastFailedAt[pRet[1]][1] + quarantineWindow

-----------------------------------------------------------------------------
(***************************************************************************)
(* Claims about getCluster and the pool                                    *)
(***************************************************************************)

\* C6, as stated: at no time do more than POOL_SIZE tasks run, counted over
\* every task submitted through getCluster().execute, including the tasks of
\* calls that arrive before the first launch has settled.
C6_AtMostPoolSizeActive == TotalActive <= POOL_SIZE

\* C7: with capacity 2 and NumTasks tasks submitted, each of which ends once
\* it runs, every task eventually has run and ended.
AllDone == \A t \in Tasks : tPc[t] = "done"
C7_AllTasksComplete == <>AllDone

\* C7, witness: all the tasks went through one instance of capacity 2, so
\* that all but two of them had to wait, and all have ended.
C7_Witness ==
    /\ AllDone
    /\ NumTasks > POOL_SIZE
    /\ \A t \in Tasks : tInst[t] = cluster

-----------------------------------------------------------------------------
(***************************************************************************)
(* Claims about the retry loops                                            *)
(***************************************************************************)

\* The call went into its loop: it was given at least one attempt, and the
\* url got past the normalizeLinkedInUrl in front of the loop.
InLoop ==
    /\ rLoop # "none"
    /\ retries >= 1
    /\ rLoop = "extractCompanyDataFromLinkedIn" => rUrlOk
Invocations == Len(history) + (IF rPc = "operation" THEN 1 ELSE 0)
LastCause == history[Len(history)]
\* Attempts 1..k-1 failed, and the call settled on the outcome of attempt k.
CountsRight ==
    /\ history # <<>>
    /\ Len(history) <= retries
    /\ \A i \in 1..(Len(history) - 1) : history[i] # "ok"
    /\ rRet[1].threw <=> LastCause # "ok"
    /\ rRet[1].threw => Len(history) = retries
    /\ ~rRet[1].threw => rRet[1].value = Scraped

\* C8, as stated: a loop of N >= 1 attempts invokes the operation N times
\* when it always fails and k times when it first succeeds at attempt k, and
\* after N failures throws the failure of the last attempt.
C8_ThrowsLastFailure ==
    (rPc = "done" /\ InLoop) =>
        /\ CountsRight
        /\ rRet[1].threw => rRet[1].value = AttemptError(rLoop, LastCause)

\* C8, amended: the counts are as stated; after N failures
\* retryLinkedInExtraction throws the error of the last attempt, and the loop
\* of linkedinScraper.js throws a new NetworkError that carries the message of
\* the last attempt's error, or the default message when that is empty.
C8_ThrowsAfterLastFailure ==
    (rPc = "done" /\ InLoop) =>
        /\ CountsRight
        /\ (rRet[1].threw /\ rLoop = "retryLinkedInExtraction") =>
               rRet[1].value = VisitError(LastCause)
        /\ (rRet[1].threw /\ rLoop = "extractCompanyDataFromLinkedIn") =>
               /\ rRet[1].value.errorType = "NetworkError"
               /\ rRet[1].value.errorMessage =
                      IF Raised(LastCause).message = "" THEN DefaultMessage
                      ELSE Raised(LastCause).message

\* C8, witness: the loop of linkedinScraper.js has failed three times, the
\* last time on a navigation timeout, and has thrown.
C8_Witness ==
    /\ rPc = "done"
    /\ rLoop = "extractCompanyDataFromLinkedIn"
    /\ Len(history) = 3
    /\ LastCause = "timeout"
    /\ rRet[1].threw

\* linkedInConfig.retry, src/unnamed/part_002 lines 60 and 63.
baseRetryDelay == 1000
retryMultiplier == 2

\* C9: in both loops the delay waited before attempt n > 1 is at least
\* baseRetryDelay * retryMultiplier^(n-2).
C9_DelayAtLeastBackoff ==
    \A n \in 2..Invocations :
        /\ Len(delays) >= n - 1
        /\ delays[n - 1] >= baseRetryDelay * retryMultiplier ^ (n - 2)

\* C9, witness: retryLinkedInExtraction is in its third attempt, having
\* waited 1000 ms and then 2000 ms.
C9_Witness ==
    /\ rLoop = "retryLinkedInExtraction"
    /\ rPc = "operation"
    /\ Invocations = 3
    /\ delays = <<1000, 2000>>

\* The kinds of failure the specification calls non-retryable.
NonRetryable == {"validation", "blocked"}

-----------------------------------------------------------------------------
(***************************************************************************)
(* Claims about extractCompanyDetails as a whole                           *)
(***************************************************************************)

\* Call c is at its cache check and the Map holds a fresh entry for its key.
AtFreshEntry(c) ==
    /\ cPc[c] = "resolving"
    /\ MapHas(extractionCache, CacheKey(cUrl[c]))
    /\ IsFresh(MapGet(extractionCache, CacheKey(cUrl[c]))[1], now)
\* The step taken is the one of call c that follows the DNS answer.
Checks(c) == cPc[c] = "resolving" /\ cPc'[c] # "resolving"
CachedPayload(c) ==
    [MapGet(extractionCache, CacheKey(cUrl[c]))[1].data EXCEPT !.cached = TRUE]
DomainError == createError("NetworkError", "Domain cannot be resolved")

\* C11, as stated: whenever the cache holds a fresh entry for the key of a
\* call, the call returns that payload marked as cached, and goes neither to
\* the pool nor to the LinkedIn step.
C11_HitServedFromCache ==
    [][\A c \in Calls : (Checks(c) /\ AtFreshEntry(c)) =>
            /\ ret' = Returned(c, CachedPayload(c))
            /\ cPc'[c] = "idle"]_vars

\* C11, amended: the cache is read only after the DNS lookup.  With a fresh
\* entry for its key a call either throws "Domain cannot be resolved" or
\* returns the cached payload marked as cached; either way it ends there,
\* without a pool task, without a LinkedIn step and without touching the Map.
C11_HitOrDomainError ==
    [][\A c \in Calls : (Checks(c) /\ AtFreshEntry(c)) =>
            /\ \/ ret' = Returned(c, CachedPayload(c))
               \/ ret' = Thrown(c, DomainError)
            /\ cPc'[c] = "idle"
            /\ extractionCache' = extractionCache]_vars

\* C11, witness: a call has just been served from the cache, while the other
\* call is still waiting and no task is at the pool.
C11_Witness ==
    /\ ret # None
    /\ ~ret[1].threw
    /\ ret[1].value.cached
    /\ \A c \in Calls : cPc[c] \notin {"site", "linkedin"}

\* The error taxonomy, src/src/utils/errorUtils.js lines 4-11.
ErrorTypes == {"TimeoutError", "NavigationError", "LinkedInBotDetection",
               "ExtractionError", "NetworkError", "ECONNRESET"}

\* C12, as stated: what a call hands to its caller is a successful payload
\* or one error object whose errorType is of the taxonomy; never an
\* exception without a type.
C12_SuccessOrTypedError ==
    ret # None =>
        IF ret[1].threw
        THEN ret[1].value.errorType \in ErrorTypes
        ELSE ret[1].value.success

\* The race was lost by the loop: the step ended on the timer's TimeoutError.
TimedOut ==
    /\ lPc = "done"
    /\ lRes # None
    /\ lRes[1].threw
    /\ lRes[1].value.errorType = "TimeoutError"

\* C13, as stated: once the 120 s deadline has fired the step has ended with
\* a TimeoutError, no attempt of the task is at the pool, and no further
\* attempt is started.
C13_DeadlineReleases ==
    /\ [](TimedOut => rPc # "operation")
    /\ [][(TimedOut /\ TimedOut') => Invocations' <= Invocations]_vars

\* The step taken is a return of freshly extracted data by call c.
ReturnsExtracted(c) ==
    /\ cPc[c] \in {"site", "linkedin"}
    /\ cPc'[c] = "idle"
    /\ ret' # None
    /\ ~ret'[1].threw
HealthyPool == Len(proxies) >= 1 /\ failedProxies = {}

EntriesFor(cache, key) == {i \in 1..Len(cache) : cache[i].key = key}
InFlight(c) == cPc[c] \in {"site", "linkedin"}

\* C15: calls for one key are not coalesced.  Whenever a call stores its
\* result, also when another call for the same key has missed the cache and
\* is extracting or has stored already, the Map afterwards holds exactly one
\* entry for the key, which is the one just written, and the other calls go
\* on as they were.
C15_LaterWriteWins ==
    [][\A c \in Calls : ReturnsExtracted(c) =>
            LET key == CacheKey(cUrl[c]) IN
            /\ Cardinality(EntriesFor(extractionCache', key)) = 1
            /\ MapGet(extractionCache', key)[1].data = ret'[1].value
            /\ MapGet(extractionCache', key)[1].timestamp = now
            /\ \A d \in Calls \ {c} : cPc'[d] = cPc[d] /\ cUrl'[d] = cUrl[d]]_vars

\* C15, witness: a call has just stored and returned its result while another
\* call for the same key, which missed the cache before that store, is still
\* extracting.
C15_Witness ==
    /\ ret # None
    /\ ~ret[1].threw
    /\ ~ret[1].value.cached
    /\ \E d \in Calls :
           /\ InFlight(d)
           /\ MapHas(extractionCache, CacheKey(cUrl[d]))
           /\ MapGet(extractionCache, CacheKey(cUrl[d]))[1].data = ret[1].value
           /\ MapGet(extractionCache, CacheKey(cUrl[d]))[1].timestamp = now

-----------------------------------------------------------------------------
(***************************************************************************)
(* Claims about the rotation of LinkedInProxyManager                       *)
(***************************************************************************)

\* The step taken is a call of getNextProxy; no other method returns a proxy.
CallsGetNextProxy == pRet' # None
Expired == pNow - lastProxyRotation > rotationInterval
\* Position i of the list, counted from 0 as the cursor is, is not quarantined.
Healthy(i) == proxies[i + 1].id \notin failedProxies
NumHealthy == Cardinality({i \in 0..(Len(proxies) - 1) : Healthy(i)})
\* Where the search of a call starts: behind the cursor after a periodic
\* rotation, else at the cursor.
SearchStart ==
    IF Expired /\ Len(proxies) >= 2
    THEN (currentProxyIndex + 1) % Len(proxies)
    ELSE currentProxyIndex
CursorOnReturned ==
    (pRet # None /\ pRet[1] # Null) =>
        /\ proxies[currentProxyIndex + 1].id = pRet[1]
        /\ Healthy(currentProxyIndex)

\* C16, as stated: every call of getNextProxy moves the cursor on, so that
\* with two healthy proxies and no rotation due, the cursor is no longer on the
\* proxy just returned and the next call returns another one.
C16_EveryCallAdvances ==
    /\ [][(CallsGetNextProxy /\ NumHealthy >= 2 /\ ~Expired) =>
              currentProxyIndex' # currentProxyIndex]_vars
    /\ [](( /\ pRet # None
            /\ pRet[1] # Null
            /\ NumHealthy >= 2
            /\ ~Expired ) => proxies[currentProxyIndex + 1].id # pRet[1])

\* C16, amended: a call returns the first proxy at or after the cursor (taken
\* after the periodic rotation, wrapping) that is not quarantined, and leaves
\* the cursor on it; the cursor moves only past quarantined entries or by the
\* periodic rotation, so a call repeated at once returns the same proxy.
C16_CursorStaysOnReturned ==
    /\ []CursorOnReturned
    /\ [][(CallsGetNextProxy /\ Len(proxies) > 0 /\ NumHealthy > 0) =>
              \E k \in 0..(Len(proxies) - 1) :
                  /\ currentProxyIndex' = (SearchStart + k) % Len(proxies)
                  /\ Healthy(currentProxyIndex')
                  /\ \A j \in 0..(k - 1) : ~Healthy((SearchStart + j) % Len(proxies))
                  /\ pRet' = Some(proxies[currentProxyIndex' + 1].id)]_vars

\* C16, witness: a proxy has just been returned while two proxies are healthy
\* and no rotation is due.
C16_Witness ==
    /\ pRet # None
    /\ pRet[1] # Null
    /\ Len(proxies) = 2
    /\ NumHealthy = 2
    /\ ~Expired
    /\ proxies[1].id # proxies[2].id

\* C17, as stated: a call with the interval elapsed and two or more proxies
\* moves the cursor by exactly one position and stamps lastProxyRotation; a
\* call with the interval not elapsed and a healthy current proxy leaves the
\* cursor.
C17_RotatesByOne ==
    [][(CallsGetNextProxy /\ Len(proxies) > 0) =>
          /\ (Expired /\ Len(proxies) >= 2) =>
                 /\ currentProxyIndex' = (currentProxyIndex + 1) % Len(proxies)
                 /\ lastProxyRotation' = pNow
          /\ (~Expired /\ Healthy(currentProxyIndex)) =>
                 currentProxyIndex' = currentProxyIndex]_vars

\* C17, amended: such a call stamps lastProxyRotation and moves the cursor
\* by one position when the proxy there is not quarantined or all are;
\* otherwise the search goes on from there past quarantined entries.  A call
\* with the interval not elapsed leaves lastProxyRotation, and leaves the
\* cursor when the current proxy is healthy.
C17_RotatesThenSearches ==
    [][(CallsGetNextProxy /\ Len(proxies) > 0) =>
          /\ (Expired /\ Len(proxies) >= 2) =>
                 /\ lastProxyRotation' = pNow
                 /\ (Healthy((currentProxyIndex + 1) % Len(proxies)) \/ NumHealthy = 0) =>
                        currentProxyIndex' = (currentProxyIndex + 1) % Len(proxies)
          /\ (Expired /\ Len(proxies) = 1) =>
                 /\ lastProxyRotation' = lastProxyRotation
                 /\ currentProxyIndex' = currentProxyIndex
          /\ ~Expired =>
                 /\ lastProxyRotation' = lastProxyRotation
                 /\ Healthy(currentProxyIndex) => currentProxyIndex' = currentProxyIndex]_vars

\* C17, witness: a call made after the interval had elapsed, with two
\* proxies and none of them failed, has stamped the rotation and returned the
\* proxy behind the cursor.
C17_Witness ==
    /\ pRet # None
    /\ pRet[1] # Null
    /\ Len(proxies) = 2
    /\ failedProxies = {}
    /\ lastProxyRotation = pNow
    /\ pNow > rotationInterval
    /\ currentProxyIndex = 1

\* The proxies other than the one at position i keep their records, and the
\* ids other than its id keep their quarantine status.
OthersUntouched(i) ==
    /\ \A j \in (1..Len(proxies)) \ {i} : proxies'[j] = proxies[j]
    /\ \A id \in ProxyIds \ {proxies[i].id} : id \in failedProxies' <=> id \in failedProxies

\* C18: a step that changes the successCount of a proxy (markProxySuccess for
\* its id) adds exactly 1 to it, leaves its failureCount, takes its id out of
\* quarantine, and touches no other proxy; a step that changes the
\* failureCount of a proxy (markProxyFailed for its id) adds exactly 1 to it,
\* leaves its other fields, quarantines its id, and touches no other proxy.
C18_MarkTouchesOneProxy ==
    [][\A i \in 1..Len(proxies) :
          /\ proxies'[i].successCount # proxies[i].successCount =>
                 /\ proxies'[i].successCount = proxies[i].successCount + 1
                 /\ proxies'[i].failureCount = proxies[i].failureCount
                 /\ proxies'[i].id = proxies[i].id
                 /\ proxies[i].id \notin failedProxies'
                 /\ OthersUntouched(i)
          /\ proxies'[i].failureCount # proxies[i].failureCount =>
                 /\ proxies'[i] = [proxies[i] EXCEPT !.failureCount = @ + 1]
                 /\ failedProxies' = failedProxies \cup {proxies[i].id}
                 /\ OthersUntouched(i)]_vars

\* C18, witness: of two proxies with different ids that have both failed,
\* the first has since been marked successful and is out of quarantine, the
\* second is still quarantined with its counters as they were.
C18_Witness ==
    /\ Len(proxies) = 2
    /\ proxies[1].id # proxies[2].id
    /\ proxies[1].failureCount = 1
    /\ proxies[1].successCount = 1
    /\ proxies[1].id \notin failedProxies
    /\ lastFailedAt[proxies[1].id] = None
    /\ proxies[2].failureCount = 1
    /\ proxies[2].successCount = 0
    /\ proxies[2].id \in failedProxies

-----------------------------------------------------------------------------
(***************************************************************************)
(* Claims about LinkedInSessionManager                                     *)
(***************************************************************************)

\* The age of a snapshot or session, in ms.
AgeMs(data) == (sNow - data.timestamp) * SessionTickMs
Loaded(op) == sRet' # None /\ sRet'[1].op = op

\* What a loadSession step must have done: null exactly when there is no
\* session snapshot or its age exceeds sessionTimeout; in the expired case the
\* snapshot is removed and the current session is null; else the snapshot is
\* returned, kept, and made the current session.
SessionLoadRight ==
    Loaded("loadSession") =>
        LET gone == sessionFile = None \/ AgeMs(sessionFile[1]) > sessionTimeoutMs IN
        /\ sRet'[1].value = None <=> gone
        /\ (sessionFile # None /\ gone) =>
               sessionFile' = None /\ currentSession' = None
        /\ ~gone =>
               /\ sRet'[1].value = sessionFile
               /\ sessionFile' = sessionFile
               /\ currentSession' = sessionFile

\* The same of a loadCookies step, whose answer is a boolean: false exactly
\* when there is no cookie snapshot or its age exceeds sessionTimeout.
CookieLoadRight ==
    LET gone == cookieFile = None \/ AgeMs(cookieFile[1]) > sessionTimeoutMs IN
    /\ sRet'[1].value.value = FALSE <=> gone
    /\ (cookieFile # None /\ gone) =>
           cookieFile' = None /\ currentSession' = None
    /\ ~gone => cookieFile' = cookieFile

\* C19, as stated: loading returns none when no snapshot exists or the
\* snapshot's age exceeds sessionTimeout, clearing the store in the expired
\* case, and otherwise returns what is stored, for loadSession and for
\* loadCookies alike.
C19_LoadsUnlessAbsentOrExpired ==
    [][SessionLoadRight /\ (Loaded("loadCookies") => CookieLoadRight)]_vars

\* C19, amended: the same, except that loadCookies also returns false, with
\* the snapshot kept, when putting the stored cookies on the page fails.
C19_LoadsUnlessAbsentExpiredOrPageFails ==
    [][/\ SessionLoadRight
       /\ (Loaded("loadCookies") /\ ~sRet'[1].value.error) => CookieLoadRight]_vars

\* C19, witness: loadSession has just returned a session whose age is
\* exactly sessionTimeout, the oldest that is still loaded.
C19_Witness ==
    /\ sRet # None
    /\ sRet[1].op = "loadSession"
    /\ sRet[1].value # None
    /\ sRet[1].value = sessionFile
    /\ currentSession = sessionFile
    /\ AgeMs(sessionFile[1]) = sessionTimeoutMs

\* C20: needsRefresh returns true exactly when there is no current session
\* or its age exceeds 80% of sessionTimeout.
C20_RefreshAtEightyPercent ==
    (sRet # None /\ sRet[1].op = "needsRefresh") =>
        (sRet[1].value <=>
            \/ currentSession = None
            \/ AgeMs(currentSession[1]) * 10 > sessionTimeoutMs * 8)

\* C20, witness: needsRefresh has just returned false for a current session
\* whose age is exactly 80% of sessionTimeout.
C20_Witness ==
    /\ sRet # None
    /\ sRet[1].op = "needsRefresh"
    /\ ~sRet[1].value
    /\ currentSession # None
    /\ AgeMs(currentSession[1]) * 10 = sessionTimeoutMs * 8

\* The object saveSession builds from additionalData of the given type at
\* the time the snapshot says: nothing of an earlier save is in it.
BuiltFrom(data, type) ==
    \E random \in RandomParts : data = SessionData(data.timestamp, random, type)

-----------------------------------------------------------------------------
(***************************************************************************)
(* Further claims about extractCompanyDetails and the extraction cache     *)
(***************************************************************************)

WrittenAt(cache, key) == MapGet(cache, key)[1].timestamp
Evicted == MapKeys(extractionCache) \ MapKeys(extractionCache')

\* C22: the entry removed when the cache exceeds its bound is one with the
\* earliest write timestamp among those stored: no entry that stays was
\* written before it, and it is not the entry just written.
C22_EvictsEarliestWritten ==
    [][\A k \in Evicted :
           /\ \A j \in MapKeys(extractionCache') :
                  WrittenAt(extractionCache, k) <= WrittenAt(extractionCache', j)
           /\ \A c \in Calls :
                  (cPc[c] \in {"site", "linkedin"} /\ cPc'[c] = "idle") =>
                      k # CacheKey(cUrl[c])]_vars

\* A call has ended where it began, at the validation of lines 71-74.
EndsAtValidation == cPc' = cPc /\ ret' # None

\* C23: a call whose url fails validation ends, before any task is submitted,
\* with a thrown error of type ValidationError.
C23_InvalidUrlIsValidationError ==
    [][EndsAtValidation =>
           /\ ret'[1].threw
           /\ ret'[1].value.errorType = "ValidationError"]_vars

\* C24: a call does not wait for its site task, slot included, beyond a
\* deadline: it is not still waiting when a tick of the clock, ten minutes
\* and more than any deadline of the code, has passed.
C24_SiteWaitHasDeadline ==
    [][\A c \in Calls :
           (cPc[c] = "site" /\ now' > now) => cPc'[c] # "site"]_vars


\* Call c is answered from the cache.
ServedFromCache(c) ==
    /\ cPc[c] = "resolving"
    /\ cPc'[c] = "idle"
    /\ ret' # None
    /\ ~ret'[1].threw

\* C27: a payload served from the cache was computed for the same url and
\* the same linkedin identity as the request it is served to: its site is
\* the request's url, and its linkedin data, if it has any, is that of the
\* request's linkedin url, so that a request without one gets none.
C27_HitMatchesRequest ==
    [][\A c \in Calls :
           ServedFromCache(c) =>
               /\ ret'[1].value.site = cUrl[c]
               /\ ret'[1].value.linkedin \in {"null", cLinkedin[c]}
               /\ cLinkedin[c] = "" => ret'[1].value.linkedin = "null"]_vars

\* C29: a call that ends with an error leaves the cache as it was, and no
\* entry of the cache holds an error.
C29_FailureLeavesCache ==
    /\ [][(ret' # None /\ ret'[1].threw) => extractionCache' = extractionCache]_vars
    /\ [](\A i \in 1..Len(extractionCache) : extractionCache[i].data.success)

\* C29, witness: a call has just ended with the site's TimeoutError while
\* the cache holds an entry.
C29_Witness ==
    /\ ret # None
    /\ ret[1].threw
    /\ ret[1].value.errorType = "TimeoutError"
    /\ extractionCache # <<>>

\* C30: a call whose LinkedIn extraction failed or timed out stores nothing:
\* no payload with linkedin = null is cached for a request that named a
\* linkedin url.
C30_PartialResultNotCached ==
    [][\A c \in Calls :
           (/\ cPc[c] = "linkedin"
            /\ cPc'[c] = "idle"
            /\ ret' # None
            /\ ret'[1].value.linkedin = "null") =>
               /\ lastStore' = lastStore
               /\ extractionCache' = extractionCache]_vars

-----------------------------------------------------------------------------
(***************************************************************************)
(* Further claims about getCluster                                         *)
(***************************************************************************)

\* C28: Cluster.launch is called at most once, and every caller of
\* getCluster that has been answered got the same instance.
C28_OneLaunchOneInstance ==
    /\ Cardinality(Launches) <= 1
    /\ \A t, u \in Tasks : (tInst[t] # 0 /\ tInst[u] # 0) => tInst[t] = tInst[u]

-----------------------------------------------------------------------------
(***************************************************************************)
(* Claims about the anti-block detector                                    *)
(***************************************************************************)

\* initialCooldown * backoffMultiplier^(k-1), by repeated multiplication.
RECURSIVE Escalated(_, _)
Escalated(config, k) ==
    IF k <= 1 THEN config.cooldownPeriod
    ELSE Escalated(config, k - 1) * config.backoffMultiplier

-----------------------------------------------------------------------------
(***************************************************************************)
(* Further claims about the retry loops                                    *)
(***************************************************************************)

\* C26: when every attempt was answered with a block (the challenge page),
\* the loop ends, after at most `retries` attempts, by throwing a failure of
\* kind BlockDetected.
C26_AllBlockedEndsBlockDetected ==
    (/\ rPc = "done"
     /\ history # <<>>
     /\ \A i \in 1..Len(history) : history[i] = "blocked") =>
        /\ Len(history) <= retries
        /\ rRet[1].threw
        /\ rRet[1].value.errorType = "BlockDetected"

\* C31: a loop that has ended after N attempts that all failed has waited
\* N - 1 delays, those between the attempts, and none after the last.
C31_NoDelayAfterLastAttempt ==
    (/\ rPc = "done"
     /\ history # <<>>
     /\ \A i \in 1..Len(history) : history[i] \in Failures) =>
        Len(delays) = Len(history) - 1

-----------------------------------------------------------------------------
(***************************************************************************)
(* Further claims about LinkedInSessionManager                             *)
(***************************************************************************)

CookiesFoundExpired ==
    Loaded("loadCookies") /\ cookieFile # None /\ AgeMs(cookieFile[1]) > sessionTimeoutMs
SessionFoundExpired ==
    Loaded("loadSession") /\ sessionFile # None /\ AgeMs(sessionFile[1]) > sessionTimeoutMs

\* C32, as stated: a loadCookies that finds the cookie snapshot expired
\* leaves the session snapshot and the current session as they were, and a
\* loadSession that finds the session snapshot expired leaves the cookie
\* snapshot as it was.
C32_SnapshotsExpireIndependently ==
    [][/\ CookiesFoundExpired =>
              sessionFile' = sessionFile /\ currentSession' = currentSession
       /\ SessionFoundExpired => cookieFile' = cookieFile]_vars

\* C32, amended: a load that finds its snapshot expired clears the whole
\* store: afterwards there is neither snapshot and no current session,
\* whatever the age of the other snapshot.
C32_ExpiryClearsWholeStore ==
    [][(CookiesFoundExpired \/ SessionFoundExpired) =>
           /\ cookieFile' = None
           /\ sessionFile' = None
           /\ currentSession' = None]_vars

\* C32, witness: loadCookies has just returned false and removed a session
\* snapshot that is within sessionTimeout.
C32_Witness ==
    /\ sRet # None
    /\ sRet[1].op = "loadCookies"
    /\ unlinked.cookies # None
    /\ unlinked.session # None
    /\ AgeMs(unlinked.session[1]) <= sessionTimeoutMs
    /\ sessionFile = None
    /\ currentSession = None

\* C33: whenever getSessionStats reports hasActiveSession, the current
\* session is at most sessionTimeout old.
C33_ActiveMeansNotExpired ==
    getSessionStats.hasActiveSession => AgeMs(currentSession[1]) <= sessionTimeoutMs

-----------------------------------------------------------------------------
(***************************************************************************)
(* Further claims about LinkedInProxyManager                               *)
(***************************************************************************)

\* C34: the average latency of a proxy with successes lies between the
\* smallest and the largest latency that can have been recorded for it, and
\* after one success it is a latency that was recorded.
C34_AverageWithinRecorded ==
    \A i \in 1..Len(proxies) :
        /\ proxies[i].successCount >= 1 =>
               /\ \E rt \in ResponseTimes : rt <= proxies[i].avgResponseTime
               /\ \E rt \in ResponseTimes : proxies[i].avgResponseTime <= rt
        /\ proxies[i].successCount = 1 => proxies[i].avgResponseTime \in ResponseTimes

-----------------------------------------------------------------------------
(***************************************************************************)
(* Claims about the configuration module                                   *)
(***************************************************************************)

WellFormed(config) ==
    /\ DOMAIN config = DOMAIN DefaultConfig
    /\ \A section \in DOMAIN DefaultConfig :
           DOMAIN config[section] = DOMAIN DefaultConfig[section]
    /\ config.rateLimiting.baseDelay <= config.rateLimiting.maxDelay
    /\ config.antiBlock.cooldownPeriod <= config.antiBlock.maxCooldownPeriod

\* C35: after any sequence of applyConfigurationBySeverity calls from the
\* default configuration, baseDelay <= maxDelay, cooldownPeriod <=
\* maxCooldownPeriod and every section has all its fields; and a call with a
\* severity that is not high, medium or low leaves the configuration as it is.
C35_ConfigStaysWellFormed ==
    /\ []WellFormed(linkedInConfig)
    /\ [][applied' = Append(applied, "none") => linkedInConfig' = linkedInConfig]_vars

\* C35, witness: high, another known severity and an unknown one have been
\* applied, the unknown one last.
C35_Witness ==
    /\ Len(applied) = MaxApplies
    /\ applied[1] = "high"
    /\ applied[2] \in {"medium", "low"}
    /\ applied[Len(applied)] = "none"
    /\ linkedInConfig.rateLimiting.burstDelay = 120000

\* C36: the configuration in force after a known severity was applied is
\* the one that severity gives from the default configuration, whatever was
\* applied before.
C36_DependsOnLastSeverityOnly ==
    (applied # <<>> /\ applied[Len(applied)] # "none") =>
        linkedInConfig = WithSeverity(DefaultConfig, applied[Len(applied)])

-----------------------------------------------------------------------------
(***************************************************************************)
(* Claims about LinkedInMonitor                                            *)
(***************************************************************************)

Failed == SelectSeq(logged, LAMBDA request : ~request.success)

\* `kept` is the last `keep` elements of `all`, or all of it when shorter,
\* in the same order.
IsMostRecent(kept, all, keep) ==
    /\ Len(kept) <= keep
    /\ Len(kept) = IF Len(all) < keep THEN Len(all) ELSE keep
    /\ \A i \in 1..Len(kept) : kept[i] = all[Len(all) - Len(kept) + i]

\* C37: after any sequence of logRequest calls the monitor holds the most
\* recent requests, at most KeepRequests of them, and the most recent failed
\* requests, at most KeepErrors of them, both in the order of arrival; every
\* error record is a request that was logged with success = false.
C37_KeepsMostRecent ==
    /\ IsMostRecent(requests, logged, KeepRequests)
    /\ IsMostRecent(errors, Failed, KeepErrors)
    /\ \A i \in 1..Len(errors) :
           /\ ~errors[i].success
           /\ \E j \in 1..Len(logged) : logged[j] = errors[i]

\* C37, witness: both lists are full and have dropped records, and an error
\* record is kept whose request is no longer among the requests kept.
C37_Witness ==
    /\ Len(requests) = KeepRequests
    /\ Len(logged) > KeepRequests
    /\ Len(errors) = KeepErrors
    /\ Len(Failed) > KeepErrors
    /\ \E i \in 1..Len(errors) : \A j \in 1..Len(requests) : requests[j] # errors[i]
=============================================================================
